---- MODULE Spec2Model ----
(***************************************************************************)
(* Model of the jaml vector viewer (src/viewer_win32.c, src/vector2.h):    *)
(* the camera, the vector list with its label counter, the preset table    *)
(* and the window procedure's message handlers.                            *)
(*                                                                         *)
(* C `float` values are modelled bit-exactly as IEEE-754 binary32 numbers  *)
(* in the normal range: a float is the pair <<m, e>> standing for m * 2^e, *)
(* with m odd and |m| < 2^24 (zero is <<0, 0>>).  Every arithmetic         *)
(* operator rounds its exact result to 24 significant bits, ties to even,  *)
(* as the hardware does.  Subnormals, infinities and NaN lie outside the   *)
(* value ranges the model reaches and are not represented.                 *)
(***************************************************************************)
EXTENDS Integers, Sequences, FiniteSets, TLC

(***************************************************************************)
(* Binary32 arithmetic on 32-bit model integers.                           *)
(***************************************************************************)

Pow2Tab ==
  << 1, 2, 4, 8, 16, 32, 64, 128, 256, 512, 1024, 2048, 4096, 8192, 16384,
     32768, 65536, 131072, 262144, 524288, 1048576, 2097152, 4194304,
     8388608, 16777216, 33554432, 67108864, 134217728, 268435456,
     536870912, 1073741824 >>

Pow2(n) == Pow2Tab[n + 1]

AbsI(n) == IF n < 0 THEN -n ELSE n

SgnI(n) == IF n < 0 THEN -1 ELSE 1

RECURSIVE BitLen(_)
BitLen(a) == IF a = 0 THEN 0 ELSE 1 + BitLen(a \div 2)

\* The canonical pair of m * 2^e: trailing zero bits of m move into e.
RECURSIVE Norm(_, _)
Norm(m, e) ==
  IF m = 0 THEN <<0, 0>>
  ELSE IF m % 2 = 0 THEN Norm(m \div 2, e + 1)
  ELSE <<m, e>>

\* s * (q + r / (2 * half)) * 2^e with the fraction rounded away, ties to even.
RoundUp(s, q, r, half, e) ==
  Norm(s * (IF r > half \/ (r = half /\ q % 2 = 1) THEN q + 1 ELSE q), e)

\* s * a * 2^e rounded to 24 significant bits, round-to-nearest-even.
RoundNE(s, a, e) ==
  LET Shift(sh) ==
        IF sh <= 0 THEN Norm(s * a, e)
        ELSE RoundUp(s, a \div Pow2(sh), a % Pow2(sh), Pow2(sh - 1), e + sh)
  IN Shift(BitLen(a) - 24)

\* A nonzero float with its magnitude shifted to exactly 24 bits.
Full(x) ==
  LET Shl(a, k) == <<a * Pow2(k), x[2] - k>>
  IN Shl(AbsI(x[1]), 24 - BitLen(AbsI(x[1])))

FZero == <<0, 0>>

Fneg(x) == <<-x[1], x[2]>>

I2F(n) == RoundNE(SgnI(n), AbsI(n), 0)

\* s * (hi * 2^24 + lo) * 2^e rounded, for hi > 0 and lo < 2^24.
MulRound(s, hi, lo, e) ==
  LET Top(hb) ==
        RoundUp(s, hi * Pow2(24 - hb) + (lo \div Pow2(hb)), lo % Pow2(hb),
                Pow2(hb - 1), e + hb)
  IN Top(BitLen(hi))

\* s * a * b * 2^e from the 12-bit limbs of a and b.
MulLimbs(s, a1, a0, b1, b0, e) ==
  LET Sum(cross, low) ==
        MulRound(s, a1 * b1 + (cross \div 4096) + (low \div 16777216),
                 low % 16777216, e)
      Low(cross) == Sum(cross, (cross % 4096) * 4096 + a0 * b0)
  IN Low(a1 * b0 + a0 * b1)

Fmul(x, y) ==
  IF x[1] = 0 \/ y[1] = 0 THEN FZero
  ELSE
    LET Mag(s, a, b, e) ==
          IF BitLen(a) + BitLen(b) <= 30 THEN RoundNE(s, a * b, e)
          ELSE MulLimbs(s, a \div 4096, a % 4096, b \div 4096, b % 4096, e)
    IN Mag(SgnI(x[1]) * SgnI(y[1]), AbsI(x[1]), AbsI(y[1]), x[2] + y[2])

\* One round of long division: k more quotient bits of r / b.
DivStep(qr, b, k) ==
  << qr[1] * Pow2(k) + ((qr[2] * Pow2(k)) \div b), (qr[2] * Pow2(k)) % b >>

\* x / y for y # 0.
Fdiv(x, y) ==
  IF x[1] = 0 THEN FZero
  ELSE
    LET End(s, d4, e) ==
          RoundNE(s, 2 * d4[1] + (IF d4[2] = 0 THEN 0 ELSE 1), e)
        Quot(s, fa, fb) ==
          End(s,
              DivStep(DivStep(DivStep(DivStep(
                << fa[1] \div fb[1], fa[1] % fb[1] >>,
                fb[1], 7), fb[1], 7), fb[1], 7), fb[1], 5),
              fa[2] - fb[2] - 27)
    IN Quot(SgnI(x[1]) * SgnI(y[1]), Full(x), Full(y))

\* sb * big + ss * sml for full magnitudes with big[2] - sml[2] = d >= 0.
AddAligned(sb, big, ss, sml, d) ==
  LET Sum(n) == RoundNE(SgnI(n), AbsI(n), big[2] - 3)
      Sticky(sh, st) ==
        Sum(sb * big[1] * 8 + ss * (IF st /\ sh % 2 = 0 THEN sh + 1 ELSE sh))
  IN IF d >= 28 THEN Sticky(0, TRUE)
     ELSE Sticky((sml[1] * 8) \div Pow2(d), (sml[1] * 8) % Pow2(d) # 0)

Fadd(x, y) ==
  IF x[1] = 0 THEN y
  ELSE IF y[1] = 0 THEN x
  ELSE
    LET Order(fx, fy) ==
          IF fx[2] >= fy[2]
          THEN AddAligned(SgnI(x[1]), fx, SgnI(y[1]), fy, fx[2] - fy[2])
          ELSE AddAligned(SgnI(y[1]), fy, SgnI(x[1]), fx, fy[2] - fx[2])
    IN Order(Full(x), Full(y))

Fsub(x, y) == Fadd(x, Fneg(y))

Flt(x, y) == Fsub(x, y)[1] < 0

Fgt(x, y) == Flt(y, x)

\* (LONG)x: truncation toward zero (x within the range of LONG).
F2L(x) ==
  IF x[2] >= 0 THEN x[1] * Pow2(x[2])
  ELSE IF -x[2] > 30 THEN 0
  ELSE SgnI(x[1]) * (AbsI(x[1]) \div Pow2(-x[2]))

\* sqrt(x) for x >= 0, rounded to the nearest float.  The bits of the root
\* are produced one at a time from the radicand's bit pairs.
RECURSIVE SqrtBits(_, _, _, _)
SqrtBits(a, k, root, rem) ==
  IF k = 0 THEN <<root, rem>>
  ELSE LET Try(r, trial) ==
             IF r >= trial THEN SqrtBits(a, k - 1, root * 2 + 1, r - trial)
             ELSE SqrtBits(a, k - 1, root * 2, r)
       IN Try(rem * 4 + (IF k > 13 THEN (a \div Pow2(2 * (k - 14))) % 4 ELSE 0),
              root * 4 + 1)

Fsqrt(x) ==
  IF x[1] = 0 THEN FZero
  ELSE LET End(sr, e) ==
             RoundNE(1, 2 * sr[1] + (IF sr[2] = 0 THEN 0 ELSE 1), (e \div 2) - 14)
           Root(f) ==
             IF f[2] % 2 = 0 THEN End(SqrtBits(f[1], 26, 0, 0), f[2])
             ELSE End(SqrtBits(f[1] * 2, 26, 0, 0), f[2] - 1)
       IN Root(Full(x))

(***************************************************************************)
(* Values the C text writes as literals or takes from the C library.       *)
(***************************************************************************)

F_0_5 == <<1, -1>>
F_1_1 == <<9227469, -23>>           \* 1.1f
F_10  == <<5, 1>>
F_80  == <<5, 4>>
F_2000 == <<125, 4>>

ZOOM_IN  == F_1_1
ZOOM_OUT == Fdiv(I2F(1), F_1_1)     \* 1.0f / 1.1f

\* <<a, cosf(a), sinf(a)>> at the arguments the presets pass.
TrigTab ==
  { << <<0, 0>>, <<1, 0>>, <<0, 0>> >>,
    << <<13176795, -25>>, <<7750063, -23>>, <<6420363, -24>> >>,
    << <<13176795, -24>>, <<11863283, -24>>, <<11863283, -24>> >>,
    << <<2470649, -21>>, <<12840725, -25>>, <<7750063, -23>> >>,
    << <<13176795, -23>>, <<-6151831, -47>>, <<1, 0>> >>,
    << <<8235497, -22>>, <<-1605091, -22>>, <<7750063, -23>> >>,
    << <<2470649, -20>>, <<-11863283, -24>>, <<11863283, -24>> >>,
    << <<360303, -17>>, <<-484379, -19>>, <<802545, -21>> >>,
    << <<13176795, -22>>, <<-1, 0>>, <<-6151831, -46>> >>,
    << <<7411947, -21>>, <<-7750063, -23>>, <<-12840725, -25>> >>,
    << <<8235497, -21>>, <<-11863281, -24>>, <<-11863285, -24>> >>,
    << <<9059047, -21>>, <<-12840715, -25>>, <<-15500129, -24>> >>,
    << <<2470649, -19>>, <<6713111, -49>>, <<-1, 0>> >>,
    << <<5353073, -20>>, <<12840731, -25>>, <<-15500125, -24>> >>,
    << <<360303, -16>>, <<11863287, -24>>, <<-11863279, -24>> >>,
    << <<12353245, -21>>, <<15500127, -24>>, <<-12840725, -25>> >>,
    << <<4392265, -23>>, <<14529495, -24>>, <<1, -1>> >>,
    << <<4392265, -22>>, <<16777215, -25>>, <<1816187, -21>> >>,
    << <<4392265, -21>>, <<-8388609, -24>>, <<14529495, -24>> >>,
    << <<5490331, -21>>, <<-14529495, -24>>, <<8388609, -24>> >>,
    << <<120101, -15>>, <<-14529493, -24>>, <<-8388611, -24>> >>,
    << <<4392265, -20>>, <<-16777213, -25>>, <<-1816187, -21>> >>,
    << <<5490331, -20>>, <<16777213, -25>>, <<-1816187, -21>> >>,
    << <<12078729, -21>>, <<7264749, -23>>, <<-2097151, -22>> >> }

cosf(a) == (CHOOSE t \in TrigTab : t[1] = a)[2]

sinf(a) == (CHOOSE t \in TrigTab : t[1] = a)[3]

RGB(r, g, b) == r + 256 * g + 65536 * b

(***************************************************************************)
(* Camera and the world/screen transforms.  W and H are g_clientW and      *)
(* g_clientH; a point is <<x, y>>.                                         *)
(***************************************************************************)

\* clampf without the upper limit.
clampf_from_below(x, a, b) == IF Flt(x, a) THEN a ELSE x

clampf(x, a, b) == IF Flt(x, a) THEN a ELSE IF Fgt(x, b) THEN b ELSE x

\* world_to_screen without the pan.
world_to_screen_unpanned(cam, W, H, x, y) ==
  << F2L(Fadd(Fmul(I2F(W), F_0_5), Fmul(x, cam.scale))),
     F2L(Fsub(Fmul(I2F(H), F_0_5), Fmul(y, cam.scale))) >>

world_to_screen(cam, W, H, x, y) ==
  << F2L(Fadd(Fadd(Fmul(I2F(W), F_0_5), cam.panX), Fmul(x, cam.scale))),
     F2L(Fsub(Fadd(Fmul(I2F(H), F_0_5), cam.panY), Fmul(y, cam.scale))) >>

screen_to_world(cam, W, H, sx, sy) ==
  << Fdiv(Fsub(Fsub(I2F(sx), Fmul(I2F(W), F_0_5)), cam.panX), cam.scale),
     Fdiv(Fsub(Fadd(Fmul(I2F(H), F_0_5), cam.panY), I2F(sy)), cam.scale) >>

\* The zoom without the pan correction: the scale alone changes.
zoom_scale_only(cam, W, H, wheelDelta, mx, my) ==
  [cam EXCEPT !.scale =
     clampf(Fmul(cam.scale, IF wheelDelta > 0 THEN ZOOM_IN ELSE ZOOM_OUT),
            F_10, F_2000)]

handle_zoom_at_cursor(cam, W, H, wheelDelta, mx, my) ==
  LET Pan(cam1, s1) ==
        [cam1 EXCEPT !.panX = Fadd(cam1.panX, I2F(mx - s1[1])),
                     !.panY = Fadd(cam1.panY, I2F(my - s1[2]))]
      Anchor(w0, cam1) == Pan(cam1, world_to_screen(cam1, W, H, w0[1], w0[2]))
      Zoom(w0, zoomFactor) ==
        Anchor(w0, [cam EXCEPT !.scale =
                      clampf(Fmul(cam.scale, zoomFactor), F_10, F_2000)])
  IN Zoom(screen_to_world(cam, W, H, mx, my),
          IF wheelDelta > 0 THEN ZOOM_IN ELSE ZOOM_OUT)

(***************************************************************************)
(* nice_step_for_scale.  The target is a double; here it is the fraction   *)
(* t[1] / t[2] (t[2] > 0) and the arithmetic is exact, which is what       *)
(* log10, floor, pow and the division give for targets that are not        *)
(* within a rounding of 1.5, 3 or 7 times a power of ten.  The step        *)
(* m * 10^k is the pair <<m, k>>, a leading 10 written as 1 of the next    *)
(* decade (the double is the same).                                        *)
(***************************************************************************)

\* floor(log10(n / d)) for n, d > 0.
RECURSIVE FloorLog10(_, _)
FloorLog10(n, d) ==
  IF n >= 10 * d THEN FloorLog10(n, 10 * d) + 1
  ELSE IF n < d THEN FloorLog10(10 * n, d) - 1
  ELSE 0

\* The ladder with the rungs 1, 3, 5, 10 at the same thresholds.
nice_step_rung_three(target_world_step) ==
  IF target_world_step[1] <= 0 THEN << 1, 0 >>
  ELSE
    LET Rung(k, n, d) ==   \* frac = n / d
          IF 2 * n < 3 * d THEN << 1, k >>
          ELSE IF n < 3 * d THEN << 3, k >>
          ELSE IF n < 7 * d THEN << 5, k >>
          ELSE << 1, k + 1 >>
        Frac(k) ==
          IF k >= 0
          THEN Rung(k, target_world_step[1],
                    target_world_step[2] * << 1, 10, 100, 1000 >>[k + 1])
          ELSE Rung(k, target_world_step[1] * << 1, 10, 100, 1000 >>[1 - k],
                    target_world_step[2])
    IN Frac(FloorLog10(target_world_step[1], target_world_step[2]))

nice_step_for_scale(target_world_step) ==
  IF target_world_step[1] <= 0 THEN << 1, 0 >>
  ELSE
    LET Rung(k, n, d) ==   \* frac = n / d
          IF 2 * n < 3 * d THEN << 1, k >>
          ELSE IF n < 3 * d THEN << 2, k >>
          ELSE IF n < 7 * d THEN << 5, k >>
          ELSE << 1, k + 1 >>
        Frac(k) ==
          IF k >= 0
          THEN Rung(k, target_world_step[1],
                    target_world_step[2] * << 1, 10, 100, 1000 >>[k + 1])
          ELSE Rung(k, target_world_step[1] * << 1, 10, 100, 1000 >>[1 - k],
                    target_world_step[2])
    IN Frac(FloorLog10(target_world_step[1], target_world_step[2]))

(***************************************************************************)
(* Labels.                                                                 *)
(***************************************************************************)

Letters ==
  << "a", "b", "c", "d", "e", "f", "g", "h", "i", "j", "k", "l", "m",
     "n", "o", "p", "q", "r", "s", "t", "u", "v", "w", "x", "y", "z" >>

\* The loop of make_label: tmp holds the letters, least significant first.
RECURSIVE LabelLoop(_, _)
LabelLoop(x, tmp) ==
  IF x > 0 /\ Len(tmp) < 32
  THEN LabelLoop((x - 1) \div 26, Append(tmp, Letters[((x - 1) % 26) + 1]))
  ELSE tmp

\* make_label copying tmp out in the order the loop produced it.
make_label_unreversed(idx, outsz) ==
  LET Out(tmp, n) ==
        [i \in 1..(IF n < outsz - 1 THEN n ELSE outsz - 1) |-> tmp[i]]
      Same(tmp) == Out(tmp, Len(tmp))
  IN Same(LabelLoop(idx + 1, <<>>))

\* The string make_label leaves in a buffer of outsz bytes (outsz > 0).
make_label(idx, outsz) ==
  LET Out(tmp, n) ==
        [i \in 1..(IF n < outsz - 1 THEN n ELSE outsz - 1) |-> tmp[n + 1 - i]]
      Reversed(tmp) == Out(tmp, Len(tmp))
  IN Reversed(LabelLoop(idx + 1, <<>>))

LABEL_SIZE == 8

(***************************************************************************)
(* vector2.h.  A vec2 is <<x, y>>.                                         *)
(***************************************************************************)

\* abs is the integer abs of <stdlib.h>: the float argument is converted to
\* int (truncated toward zero), and the int result back to float.
vec2_abs(a) == << I2F(AbsI(F2L(a[1]))), I2F(AbsI(F2L(a[2]))) >>

vec2_length2(a) == Fadd(Fmul(a[1], a[1]), Fmul(a[2], a[2]))

vec2_length(a) == Fsqrt(vec2_length2(a))

\* vec2_normalize falling back to (1,0) for a vector of length 0.
vec2_normalize_unit_x(a) ==
  LET Scaled(len) ==
        IF len = FZero THEN <<I2F(1), FZero>>
        ELSE <<Fdiv(a[1], len), Fdiv(a[2], len)>>
  IN Scaled(vec2_length(a))

vec2_normalize(a) ==
  LET Scaled(len) ==
        IF len = FZero THEN <<FZero, FZero>>
        ELSE <<Fdiv(a[1], len), Fdiv(a[2], len)>>
  IN Scaled(vec2_length(a))

vec2_dot(a, b) == Fadd(Fmul(a[1], b[1]), Fmul(a[2], b[2]))

\* acos of the C library, rounded to float, at the arguments the calls pass:
\* acos(1) = 0, acos(0) = pi/2, acos(-1) = pi.
acos(x) ==
  CASE x = I2F(1) -> FZero
    [] x = FZero -> << 13176795, -23 >>
    [] x = I2F(-1) -> << 13176795, -22 >>

vec2_angle(a, b) ==
  LET Angle(dot, len_a, len_b) ==
        IF len_a = FZero \/ len_b = FZero THEN FZero
        ELSE acos(Fdiv(dot, Fmul(len_a, len_b)))
  IN Angle(vec2_dot(a, b), vec2_length(a), vec2_length(b))

\* onto_b # (0,0): the division is by vec2_length2(onto_b).
vec2_project(a, onto_b) ==
  LET Along(scalar) == <<Fmul(onto_b[1], scalar), Fmul(onto_b[2], scalar)>>
  IN Along(Fdiv(vec2_dot(a, onto_b), vec2_length2(onto_b)))

vec2_reflect(a, n) ==
  LET Mirror(safe_n, dot) ==
        << Fsub(a[1], Fmul(Fmul(I2F(2), dot), safe_n[1])),
           Fsub(a[2], Fmul(Fmul(I2F(2), dot), safe_n[2])) >>
      About(safe_n) == Mirror(safe_n, vec2_dot(a, safe_n))
  IN About(vec2_normalize(n))

vec2_rotate(a, radians) ==
  LET Turn(cos_radians, sin_radians) ==
        << Fsub(Fmul(a[1], cos_radians), Fmul(a[2], sin_radians)),
           Fadd(Fmul(a[1], sin_radians), Fmul(a[2], cos_radians)) >>
  IN Turn(cosf(radians), sinf(radians))

(***************************************************************************)
(* The vector list.  A VecList is [data, len, cap]; data holds the slots   *)
(* below len, the only ones the program reads (a slot at or beyond len is  *)
(* written by veclist_push before len passes it).  A scene is the list,    *)
(* the label counter and the state of the process: [vecs, counter, run].   *)
(*                                                                         *)
(* mem is what realloc does in the handler being run: "ok", or it returns  *)
(* NULL.  After NULL veclist_push stores at data[len] with len = cap, which *)
(* is undefined: the process faults ("null_crash", run becomes "crashed";  *)
(* the only outcome while data is still NULL, cap = 0) or the store lands  *)
(* past the end of the storage ("null_write", run becomes "corrupt").      *)
(* Neither is followed further.                                            *)
(***************************************************************************)

Mem == {"ok", "null_crash", "null_write"}

VEntry(v, color, label) == [v |-> v, color |-> color, label |-> label]

\* The growth that takes fresh storage and does not carry the entries over.
veclist_reserve_fresh(v, want, mem) ==
  IF want <= v.cap THEN v
  ELSE LET Grow(newCap) ==
             IF mem # "ok" THEN v
             ELSE [v EXCEPT !.cap = IF newCap < want THEN want ELSE newCap,
                            !.data = <<>>]
       IN Grow(IF v.cap # 0 THEN v.cap * 2 ELSE 16)

veclist_reserve(v, want, mem) ==
  IF want <= v.cap THEN v
  ELSE LET Grow(newCap) ==
             IF mem # "ok" THEN v
             ELSE [v EXCEPT !.cap = IF newCap < want THEN want ELSE newCap]
       IN Grow(IF v.cap # 0 THEN v.cap * 2 ELSE 16)

veclist_push(st, value, col, mem) ==
  IF st.run # "running" THEN st
  ELSE
    LET Store(v, e) ==
          [v EXCEPT !.data = Append(v.data, e), !.len = v.len + 1]
        Push(v, e) ==
          IF v.len < v.cap
          THEN [vecs |-> Store(v, e), counter |-> st.counter + 1, run |-> st.run]
          ELSE IF mem = "null_crash" \/ v.cap = 0
               THEN [st EXCEPT !.run = "crashed"]
               ELSE [vecs |-> Store(v, e), counter |-> st.counter + 1,
                     run |-> "corrupt"]
    IN Push(IF st.vecs.len + 1 > st.vecs.cap
            THEN veclist_reserve(st.vecs, st.vecs.len + 1, mem)
            ELSE st.vecs,
            VEntry(value, col, make_label(st.counter, LABEL_SIZE)))

\* A clear that leaves the entries in place.
veclist_keep(v) == v

\* A clear that also gives the capacity up, as veclist_free does.
veclist_clear_release(v) == [v EXCEPT !.data = <<>>, !.len = 0, !.cap = 0]

veclist_clear(v) == [v EXCEPT !.data = <<>>, !.len = 0]

(***************************************************************************)
(* Presets.                                                                *)
(***************************************************************************)

add_vec_col(st, x, y, c, mem) == veclist_push(st, <<x, y>>, c, mem)

\* add_vec_col for each <<x, y, c>> of items, in order, for as long as the
\* process runs.
RECURSIVE add_all(_, _, _)
add_all(st, items, mem) ==
  IF items = <<>> \/ st.run # "running" THEN st
  ELSE add_all(add_vec_col(st, items[1][1], items[1][2], items[1][3], mem),
               Tail(items), mem)

\* The reset without g_label_counter = 0.
reset_list_only(st) == [st EXCEPT !.vecs = veclist_clear(st.vecs)]

reset_list_and_labels(st) ==
  [st EXCEPT !.vecs = veclist_clear(st.vecs), !.counter = 0]

preset_empty(st) == reset_list_and_labels(st)

F_1_5 == <<3, -1>>

\* What each generator passes to add_vec_col, call by call: <<x, y, c>>.
basis_items ==
  << <<I2F(2), FZero, RGB(230, 80, 80)>>,
     <<FZero, I2F(2), RGB(80, 160, 255)>>,
     <<I2F(-2), FZero, RGB(160, 90, 90)>>,
     <<FZero, I2F(-2), RGB(90, 120, 180)>>,
     <<F_1_5, F_1_5, RGB(90, 220, 120)>>,
     <<Fneg(F_1_5), F_1_5, RGB(220, 180, 90)>> >>

preset_basis(st, mem) == add_all(reset_list_and_labels(st), basis_items, mem)

SPOKES_N == 16

SPOKES_STEP == <<13176795, -25>>    \* (float)(2.0 * M_PI / 16)

spokes_items ==
  [i \in 1..SPOKES_N |->
     LET Spoke(a) ==
           <<Fmul(cosf(a), I2F(3)), Fmul(sinf(a), I2F(3)), RGB(120, 210, 140)>>
     IN Spoke(Fmul(I2F(i - 1), SPOKES_STEP))]

preset_spokes(st, mem) == add_all(reset_list_and_labels(st), spokes_items, mem)

RAND_MAX == 32767

RANDOM_N == 40

\* The k-th value (k = 0, 1, ...) rand() returns after srand(seed).  The
\* generator is the C library's; this stands for it with some sequence of
\* values in 0..RAND_MAX that the seed determines.
rand(seed, k) == ((seed + 1) * (7919 * k + 104729)) % (RAND_MAX + 1)

\* srand seeds are 0..MaxSeed (time(NULL) in the program).
MaxSeed == 1

\* The calls of preset_random's loop, for each seed.
random_tab ==
  [seed \in 0..MaxSeed |->
     [i \in 1..RANDOM_N |->
        << Fsub(Fmul(Fdiv(I2F(rand(seed, 2 * (i - 1))), I2F(RAND_MAX)), I2F(10)),
                I2F(5)),
           Fsub(Fmul(Fdiv(I2F(rand(seed, 2 * (i - 1) + 1)), I2F(RAND_MAX)), I2F(6)),
                I2F(3)),
           RGB(80, 220, 160) >>]]

random_items(seed) == random_tab[seed]

preset_random(st, mem, seed) ==
  add_all(reset_list_and_labels(st), random_items(seed), mem)

projection_items ==
  LET Items(a, b, p) ==
        << <<a[1], a[2], RGB(90, 200, 255)>>,
           <<b[1], b[2], RGB(255, 160, 60)>>,
           <<p[1], p[2], RGB(255, 220, 0)>> >>
      Project(a, b) == Items(a, b, vec2_project(a, b))
  IN Project(<<I2F(3), I2F(2)>>, <<I2F(4), I2F(1)>>)

preset_projection(st, mem) ==
  add_all(reset_list_and_labels(st), projection_items, mem)

reflection_items ==
  LET Items(i, n, r) ==
        << <<i[1], i[2], RGB(90, 200, 255)>>,
           <<n[1], n[2], RGB(255, 160, 60)>>,
           <<r[1], r[2], RGB(255, 80, 200)>> >>
      Reflect(i, n) == Items(i, n, vec2_reflect(i, n))
  IN Reflect(<<I2F(3), I2F(-2)>>, <<FZero, I2F(1)>>)

preset_reflection(st, mem) ==
  add_all(reset_list_and_labels(st), reflection_items, mem)

ROTATIONS_N == 12

ROTATIONS_STEP == <<4392265, -23>>  \* (float)(2.0 * M_PI / 12.0)

rotations_items ==
  [k \in 1..ROTATIONS_N |->
     LET Item(r) == <<r[1], r[2], RGB(100, 210, 130)>>
     IN Item(vec2_rotate(<<I2F(4), FZero>>, Fmul(I2F(k - 1), ROTATIONS_STEP)))]

preset_rotations(st, mem) ==
  add_all(reset_list_and_labels(st), rotations_items, mem)

\* The names of g_presets, by index + 1.
g_presets ==
  << "Empty", "Basis & Diagonals", "Spokes Circle", "Random Vectors",
     "Projection (a onto b)", "Reflection (i about n)", "Rotations" >>

g_preset_count == Len(g_presets)

\* g_presets[idx].fn()
preset_fn(idx, st, mem, seed) ==
  CASE idx = 0 -> preset_empty(st)
    [] idx = 1 -> preset_basis(st, mem)
    [] idx = 2 -> preset_spokes(st, mem)
    [] idx = 3 -> preset_random(st, mem, seed)
    [] idx = 4 -> preset_projection(st, mem)
    [] idx = 5 -> preset_reflection(st, mem)
    [] OTHER   -> preset_rotations(st, mem)

\* The index reduced modulo the count.
preset_modulo(idx) == idx % g_preset_count

\* The index held within 0..g_preset_count - 1.
preset_clamp(idx) ==
  IF idx < 0 THEN 0
  ELSE IF idx >= g_preset_count THEN g_preset_count - 1 ELSE idx

\* The index preset_apply_index(idx) makes current (g_preset_count > 0).
preset_wrap(idx) ==
  LET Upper(idx1) == IF idx1 >= g_preset_count THEN 0 ELSE idx1
  IN Upper(IF idx < 0 THEN g_preset_count - 1 ELSE idx)

(***************************************************************************)
(* Bounds of the exploration and the inputs the events draw from.          *)
(***************************************************************************)

\* Messages that change the state, handled in one run after WM_CREATE.
MaxOps == 4

\* Client sizes WM_SIZE reports.
Sizes == { <<800, 600>>, <<641, 481>> }

\* Cursor positions, in client coordinates.
Points == { <<403, 297>>, <<180, 80>> }

\* Wheel deltas: one notch forward, one notch back.
WheelDeltas == { 120, -120 }

\* Wheel notches at the window centre that a run may start after: a negative
\* count is notches back.  33 forward and 21 back leave the scale one notch
\* inside its limits.
ZoomNotches == { -21, 0, 23, 33 }

\* Arguments a direct call of preset_apply_index is given: -MaxIndex..MaxIndex.
MaxIndex == 9

ApplyArgs == (0 - MaxIndex)..MaxIndex

VK_DELETE == 46
VK_R == 82
VK_1 == 49
VK_2 == 50
VK_OTHER == 65

(***************************************************************************)
(* State.                                                                  *)
(***************************************************************************)

VARIABLES
  run,              \* "start" before WM_CREATE, "running", "crashed", "corrupt"
  g_cam,            \* [scale, panX, panY]
  g_clientW,
  g_clientH,
  g_label_counter,
  g_vecs,           \* [data, len, cap]
  g_preset_index,
  g_preset_name,
  g_rightDragging,
  g_lastMouse,      \* <<x, y>>
  lastSecondary,    \* history: the last secondary-button message, "none" at first
  lastMsg,          \* history: the last message that changed the state, with its
                    \* parameters, or the last direct call of a function, with
                    \* its arguments and what it returned; <<>> at first
  nops              \* state-changing messages handled since WM_CREATE

vars ==
  << run, g_cam, g_clientW, g_clientH, g_label_counter, g_vecs, g_preset_index,
     g_preset_name, g_rightDragging, g_lastMouse, lastSecondary, lastMsg, nops >>

camVars == << g_cam, g_clientW, g_clientH >>

sceneVars == << g_label_counter, g_vecs >>

presetVars == << g_preset_index, g_preset_name >>

dragVars == << g_rightDragging, g_lastMouse, lastSecondary >>

\* Camera g_cam = { 80.0f, 0.0f, 0.0f }
START_CAM == [scale |-> F_80, panX |-> FZero, panY |-> FZero]

Init ==
  /\ run = "start"
  /\ g_cam = START_CAM
  /\ g_clientW = 800
  /\ g_clientH = 600
  /\ g_label_counter = 0
  /\ g_vecs = [data |-> <<>>, len |-> 0, cap |-> 0]
  /\ g_preset_index = 0
  /\ g_preset_name = "Empty"
  /\ g_rightDragging = FALSE
  /\ g_lastMouse = <<0, 0>>
  /\ lastSecondary = "none"
  /\ lastMsg = <<>>
  /\ nops = 0

Scene == [vecs |-> g_vecs, counter |-> g_label_counter, run |-> "running"]

\* The scene st becomes the program's.
SetScene(st) ==
  /\ g_vecs' = st.vecs
  /\ g_label_counter' = st.counter
  /\ run' = st.run

\* The apply that makes the index current and keeps the name it had.
preset_apply_index_keeps_name(idx, mem, seed) ==
  LET i == preset_wrap(idx)
  IN /\ g_preset_index' = i
     /\ g_preset_name' = g_preset_name
     /\ SetScene(preset_fn(i, Scene, mem, seed))

preset_apply_index(idx, mem, seed) ==
  LET i == preset_wrap(idx)
  IN /\ g_preset_index' = i
     /\ g_preset_name' = g_presets[i + 1]
     /\ SetScene(preset_fn(i, Scene, mem, seed))

preset_next(mem, seed) == preset_apply_index(g_preset_index + 1, mem, seed)

preset_prev(mem, seed) == preset_apply_index(g_preset_index - 1, mem, seed)

(***************************************************************************)
(* WndProc: one action per message.                                        *)
(***************************************************************************)

WM_CREATE ==
  /\ run = "start"
  /\ preset_apply_index(0, "ok", 0)
  /\ lastMsg' = << "WM_CREATE" >>
  /\ UNCHANGED << camVars, dragVars, nops >>

\* The resize that also resets the camera.
WM_SIZE_resets_view(w, h) ==
  /\ run = "running"
  /\ nops < MaxOps
  /\ g_clientW' = w
  /\ g_clientH' = h
  /\ g_cam' = START_CAM
  /\ lastMsg' = << "WM_SIZE", w, h >>
  /\ nops' = nops + 1
  /\ UNCHANGED << run, sceneVars, presetVars, dragVars >>

WM_SIZE(w, h) ==
  /\ run = "running"
  /\ nops < MaxOps
  /\ g_clientW' = w
  /\ g_clientH' = h
  /\ lastMsg' = << "WM_SIZE", w, h >>
  /\ nops' = nops + 1
  /\ UNCHANGED << run, g_cam, sceneVars, presetVars, dragVars >>

\* The press that places the vector with the start camera.
WM_LBUTTONDOWN_start_camera(mx, my, mem) ==
  /\ run = "running"
  /\ nops < MaxOps
  /\ LET w == screen_to_world(START_CAM, g_clientW, g_clientH, mx, my)
     IN SetScene(veclist_push(Scene, w, RGB(80, 220, 160), mem))
  /\ lastMsg' = << "WM_LBUTTONDOWN", mx, my >>
  /\ nops' = nops + 1
  /\ UNCHANGED << camVars, presetVars, dragVars >>

WM_LBUTTONDOWN(mx, my, mem) ==
  /\ run = "running"
  /\ nops < MaxOps
  /\ LET w == screen_to_world(g_cam, g_clientW, g_clientH, mx, my)
     IN SetScene(veclist_push(Scene, w, RGB(80, 220, 160), mem))
  /\ lastMsg' = << "WM_LBUTTONDOWN", mx, my >>
  /\ nops' = nops + 1
  /\ UNCHANGED << camVars, presetVars, dragVars >>

\* The secondary press that leaves g_lastMouse as it is.
WM_RBUTTONDOWN_keeps_last(mx, my) ==
  /\ run = "running"
  /\ nops < MaxOps
  /\ g_rightDragging' = TRUE
  /\ lastSecondary' = "press"
  /\ lastMsg' = << "WM_RBUTTONDOWN", mx, my >>
  /\ nops' = nops + 1
  /\ UNCHANGED << run, camVars, sceneVars, presetVars, g_lastMouse >>

WM_RBUTTONDOWN(mx, my) ==
  /\ run = "running"
  /\ nops < MaxOps
  /\ g_rightDragging' = TRUE
  /\ g_lastMouse' = <<mx, my>>
  /\ lastSecondary' = "press"
  /\ lastMsg' = << "WM_RBUTTONDOWN", mx, my >>
  /\ nops' = nops + 1
  /\ UNCHANGED << run, camVars, sceneVars, presetVars >>

\* The pointer-move that pans and leaves g_lastMouse as it is.
WM_MOUSEMOVE_keeps_last(mx, my) ==
  /\ run = "running"
  /\ IF g_rightDragging
     THEN /\ nops < MaxOps
          /\ g_cam' = [g_cam EXCEPT
                         !.panX = Fadd(g_cam.panX, I2F(mx - g_lastMouse[1])),
                         !.panY = Fadd(g_cam.panY, I2F(my - g_lastMouse[2]))]
          /\ lastMsg' = << "WM_MOUSEMOVE", mx, my >>
          /\ nops' = nops + 1
          /\ UNCHANGED g_lastMouse
     ELSE UNCHANGED << g_cam, g_lastMouse, lastMsg, nops >>
  /\ UNCHANGED << run, g_clientW, g_clientH, sceneVars, presetVars,
                  g_rightDragging, lastSecondary >>

WM_MOUSEMOVE(mx, my) ==
  /\ run = "running"
  /\ IF g_rightDragging
     THEN /\ nops < MaxOps
          /\ g_cam' = [g_cam EXCEPT
                         !.panX = Fadd(g_cam.panX, I2F(mx - g_lastMouse[1])),
                         !.panY = Fadd(g_cam.panY, I2F(my - g_lastMouse[2]))]
          /\ g_lastMouse' = <<mx, my>>
          /\ lastMsg' = << "WM_MOUSEMOVE", mx, my >>
          /\ nops' = nops + 1
     ELSE UNCHANGED << g_cam, g_lastMouse, lastMsg, nops >>
  /\ UNCHANGED << run, g_clientW, g_clientH, sceneVars, presetVars,
                  g_rightDragging, lastSecondary >>

\* The release that leaves g_rightDragging as it is.
WM_RBUTTONUP_still_dragging ==
  /\ run = "running"
  /\ nops < MaxOps
  /\ lastSecondary' = "release"
  /\ lastMsg' = << "WM_RBUTTONUP" >>
  /\ nops' = nops + 1
  /\ UNCHANGED << run, camVars, sceneVars, presetVars, g_rightDragging,
                  g_lastMouse >>

WM_RBUTTONUP ==
  /\ run = "running"
  /\ nops < MaxOps
  /\ g_rightDragging' = FALSE
  /\ lastSecondary' = "release"
  /\ lastMsg' = << "WM_RBUTTONUP" >>
  /\ nops' = nops + 1
  /\ UNCHANGED << run, camVars, sceneVars, presetVars, g_lastMouse >>

WM_MOUSEWHEEL(delta, mx, my) ==
  /\ run = "running"
  /\ nops < MaxOps
  /\ g_cam' = handle_zoom_at_cursor(g_cam, g_clientW, g_clientH, delta, mx, my)
  /\ lastMsg' = << "WM_MOUSEWHEEL", delta, mx, my >>
  /\ nops' = nops + 1
  /\ UNCHANGED << run, g_clientW, g_clientH, sceneVars, presetVars, dragVars >>

\* The Delete key with veclist_clear alone.
KeyDelete_list_only ==
  /\ run = "running"
  /\ nops < MaxOps
  /\ g_vecs' = veclist_clear(g_vecs)
  /\ lastMsg' = << "WM_KEYDOWN", VK_DELETE >>
  /\ nops' = nops + 1
  /\ UNCHANGED << run, camVars, g_label_counter, presetVars, dragVars >>

KeyDelete ==
  /\ run = "running"
  /\ nops < MaxOps
  /\ g_vecs' = veclist_clear(g_vecs)
  /\ g_label_counter' = 0
  /\ lastMsg' = << "WM_KEYDOWN", VK_DELETE >>
  /\ nops' = nops + 1
  /\ UNCHANGED << run, camVars, presetVars, dragVars >>

\* The reset key restoring the scale alone.
KeyR_scale_only ==
  /\ run = "running"
  /\ nops < MaxOps
  /\ g_cam' = [g_cam EXCEPT !.scale = F_80]
  /\ lastMsg' = << "WM_KEYDOWN", VK_R >>
  /\ nops' = nops + 1
  /\ UNCHANGED << run, g_clientW, g_clientH, sceneVars, presetVars, dragVars >>

KeyR ==
  /\ run = "running"
  /\ nops < MaxOps
  /\ g_cam' = START_CAM
  /\ lastMsg' = << "WM_KEYDOWN", VK_R >>
  /\ nops' = nops + 1
  /\ UNCHANGED << run, g_clientW, g_clientH, sceneVars, presetVars, dragVars >>

Key1(mem, seed) ==
  /\ run = "running"
  /\ nops < MaxOps
  /\ preset_prev(mem, seed)
  /\ lastMsg' = << "WM_KEYDOWN", VK_1 >>
  /\ nops' = nops + 1
  /\ UNCHANGED << camVars, dragVars >>

Key2(mem, seed) ==
  /\ run = "running"
  /\ nops < MaxOps
  /\ preset_next(mem, seed)
  /\ lastMsg' = << "WM_KEYDOWN", VK_2 >>
  /\ nops' = nops + 1
  /\ UNCHANGED << camVars, dragVars >>

KeyOther ==
  /\ run = "running"
  /\ UNCHANGED vars

WM_KEYDOWN(wParam, mem, seed) ==
  IF wParam = VK_DELETE THEN KeyDelete
  ELSE IF wParam = VK_R THEN KeyR
  ELSE IF wParam = VK_1 THEN Key1(mem, seed)
  ELSE IF wParam = VK_2 THEN Key2(mem, seed)
  ELSE KeyOther

\* WM_PAINT draws from the state and writes none of it.
WM_PAINT ==
  /\ run = "running"
  /\ UNCHANGED vars

Delete == WM_KEYDOWN(VK_DELETE, "ok", 0)

ResetView == WM_KEYDOWN(VK_R, "ok", 0)

PresetPrev == \E mem \in Mem, seed \in 0..MaxSeed : WM_KEYDOWN(VK_1, mem, seed)

PresetNext == \E mem \in Mem, seed \in 0..MaxSeed : WM_KEYDOWN(VK_2, mem, seed)

OtherKey == WM_KEYDOWN(VK_OTHER, "ok", 0)

Resize == \E sz \in Sizes : WM_SIZE(sz[1], sz[2])

PrimaryPress == \E p \in Points, mem \in Mem : WM_LBUTTONDOWN(p[1], p[2], mem)

SecondaryPress == \E p \in Points : WM_RBUTTONDOWN(p[1], p[2])

PointerMove == \E p \in Points : WM_MOUSEMOVE(p[1], p[2])

SecondaryRelease == WM_RBUTTONUP

Scroll == \E d \in WheelDeltas, p \in Points : WM_MOUSEWHEEL(d, p[1], p[2])

Paint == WM_PAINT

Messages ==
  \/ Resize
  \/ PrimaryPress
  \/ SecondaryPress
  \/ PointerMove
  \/ SecondaryRelease
  \/ Scroll
  \/ Delete
  \/ ResetView
  \/ PresetPrev
  \/ PresetNext
  \/ OtherKey
  \/ Paint

Next == WM_CREATE \/ Messages

Spec == Init /\ [][Next]_vars

(***************************************************************************)
(* Runs that start with the camera already zoomed: the window has been     *)
(* created and the wheel turned some notches at the centre of the 800x600  *)
(* client area.                                                            *)
(***************************************************************************)

\* The camera after n more notches; a notch that leaves the camera as it was
\* (the scale at its limit) ends the turning, later ones leave it so too.
RECURSIVE ZoomedCam(_, _)
ZoomedCam(cam, n) ==
  IF n = 0 THEN cam
  ELSE LET Turned(next) ==
             IF next = cam THEN cam
             ELSE ZoomedCam(next, IF n > 0 THEN n - 1 ELSE n + 1)
       IN Turned(handle_zoom_at_cursor(cam, 800, 600,
                                       IF n > 0 THEN 120 ELSE -120, 400, 300))

InitZoomed ==
  /\ run = "running"
  /\ \E n \in ZoomNotches :
       /\ g_cam = ZoomedCam(START_CAM, n)
       /\ lastMsg = IF n = 0 THEN << "WM_CREATE" >>
                    ELSE << "WM_MOUSEWHEEL", IF n > 0 THEN 120 ELSE -120, 400, 300 >>
  /\ g_clientW = 800
  /\ g_clientH = 600
  /\ g_label_counter = 0
  /\ g_vecs = [data |-> <<>>, len |-> 0, cap |-> 0]
  /\ g_preset_index = 0
  /\ g_preset_name = "Empty"
  /\ g_rightDragging = FALSE
  /\ g_lastMouse = <<0, 0>>
  /\ lastSecondary = "none"
  /\ nops = 0

SpecZoomed == InitZoomed /\ [][Messages]_vars

(***************************************************************************)
(* preset_apply_index called with any argument: the function takes an int, *)
(* the window procedure only ever passes g_preset_index - 1, g_preset_index *)
(* + 1 and 0.                                                              *)
(***************************************************************************)

ApplyIndex ==
  \E idx \in ApplyArgs, mem \in Mem, seed \in 0..MaxSeed :
    /\ run = "running"
    /\ nops < MaxOps
    /\ preset_apply_index(idx, mem, seed)
    /\ lastMsg' = << "preset_apply_index", idx >>
    /\ nops' = nops + 1
    /\ UNCHANGED << camVars, dragVars >>

NextApply == WM_CREATE \/ ApplyIndex \/ PrimaryPress \/ Delete

SpecApply == Init /\ [][NextApply]_vars

(***************************************************************************)
(* Runs in which veclist_clear is also called on g_vecs by itself, between *)
(* the messages, without the g_label_counter = 0 that                      *)
(* reset_list_and_labels puts after it.                                    *)
(***************************************************************************)

ClearList ==
  /\ run = "running"
  /\ nops < MaxOps
  /\ g_vecs' = veclist_clear(g_vecs)
  /\ lastMsg' = << "veclist_clear" >>
  /\ nops' = nops + 1
  /\ UNCHANGED << run, camVars, g_label_counter, presetVars, dragVars >>

NextClear == WM_CREATE \/ Messages \/ ClearList

SpecClear == Init /\ [][NextClear]_vars

(***************************************************************************)
(* Runs that start far panned: the window has been created and the view    *)
(* dragged from (180,80) to (403,297) many times over (secondary press at  *)
(* the first point, move to the second), the button still held after the   *)
(* last move.                                                              *)
(***************************************************************************)

\* Numbers of drags a run may start after.  Each drag adds 223 to panX and
\* 217 to panY; after these many the pan is still below 2^24, where every
\* whole number is a float, and one or two more drags take panX past it.
PanDrags == { 75233, 75234 }

\* The pan after n such drags from 0: n float additions of the whole number
\* d, each exact while the sum stays below 2^24.
DraggedPan(n, d) == I2F(n * d)

InitPanned ==
  /\ run = "running"
  /\ \E n \in PanDrags :
       g_cam = [scale |-> F_80,
                panX |-> DraggedPan(n, 403 - 180),
                panY |-> DraggedPan(n, 297 - 80)]
  /\ g_clientW = 800
  /\ g_clientH = 600
  /\ g_label_counter = 0
  /\ g_vecs = [data |-> <<>>, len |-> 0, cap |-> 0]
  /\ g_preset_index = 0
  /\ g_preset_name = "Empty"
  /\ g_rightDragging = TRUE
  /\ g_lastMouse = <<403, 297>>
  /\ lastSecondary = "press"
  /\ lastMsg = << "WM_MOUSEMOVE", 403, 297 >>
  /\ nops = 0

SpecPanned == InitPanned /\ [][Messages]_vars

(***************************************************************************)
(* The helper functions called directly, one call a run: the call takes    *)
(* its arguments from a bounded set and leaves what it returned in lastMsg. *)
(***************************************************************************)

\* Indices make_label is called with: 0..MaxLabel, the labels of one to
\* three letters (26 + 26^2 + 26^3 = 18278 of them).
MaxLabel == 18277

CallMakeLabel ==
  \E idx \in 0..MaxLabel :
    /\ lastMsg = <<>>
    /\ lastMsg' = << "make_label", idx, make_label(idx, LABEL_SIZE) >>
    /\ UNCHANGED << run, camVars, sceneVars, presetVars, dragVars, nops >>

\* Targets nice_step_for_scale is called with: the multiples of 1/64 from -1
\* to MaxTarget (doubles all of them, 4.0, 9.0 and 15 among them), 0.9 and
\* 1.8, and 80 / scale for the whole scales 10..2000, the targets
\* draw_grid_and_axes passes.
MaxTarget == 20

StepTargets ==
  { << n, 64 >> : n \in (0 - 64)..(64 * MaxTarget) }
    \cup { << 9, 10 >>, << 18, 10 >> }
    \cup { << 80, scale >> : scale \in 10..2000 }

CallNiceStep ==
  \E t \in StepTargets :
    /\ lastMsg = <<>>
    /\ lastMsg' = << "nice_step_for_scale", t, nice_step_for_scale(t) >>
    /\ UNCHANGED << run, camVars, sceneVars, presetVars, dragVars, nops >>

\* 0.7f
F_0_7 == << 11744051, -24 >>

\* Vectors vec2_abs is called with: both components multiples of 1/2 from
\* -2.5 to 2.5, and (0.5, -0.7).
AbsArgs ==
  { << Norm(i, -1), Norm(j, -1) >> : i, j \in -5..5 }
    \cup { << F_0_5, Fneg(F_0_7) >> }

CallVec2Abs ==
  \E a \in AbsArgs :
    /\ lastMsg = <<>>
    /\ lastMsg' = << "vec2_abs", a, vec2_abs(a) >>
    /\ UNCHANGED << run, camVars, sceneVars, presetVars, dragVars, nops >>

\* Vectors vec2_normalize, vec2_angle and vec2_reflect are called with: the
\* zero vector and vectors of length 1 and 2 along the axes.
AxisArgs ==
  { << FZero, FZero >>, << I2F(1), FZero >>, << FZero, I2F(1) >>,
    << I2F(-1), FZero >>, << FZero, I2F(-2) >>, << I2F(2), FZero >> }

CallVec2Normalize ==
  \E a \in AxisArgs :
    /\ lastMsg = <<>>
    /\ lastMsg' = << "vec2_normalize", a, vec2_normalize(a) >>
    /\ UNCHANGED << run, camVars, sceneVars, presetVars, dragVars, nops >>

CallVec2Angle ==
  \E a, b \in AxisArgs :
    /\ lastMsg = <<>>
    /\ lastMsg' = << "vec2_angle", a, b, vec2_angle(a, b) >>
    /\ UNCHANGED << run, camVars, sceneVars, presetVars, dragVars, nops >>

CallVec2Reflect ==
  \E a \in AxisArgs \cup { << F_0_5, Fneg(F_0_7) >> }, n \in AxisArgs :
    /\ lastMsg = <<>>
    /\ lastMsg' = << "vec2_reflect", a, n, vec2_reflect(a, n) >>
    /\ UNCHANGED << run, camVars, sceneVars, presetVars, dragVars, nops >>

NextCalls ==
  \/ CallMakeLabel
  \/ CallNiceStep
  \/ CallVec2Abs
  \/ CallVec2Normalize
  \/ CallVec2Angle
  \/ CallVec2Reflect

SpecCalls == Init /\ [][NextCalls]_vars

(***************************************************************************)
(* Properties.                                                             *)
(***************************************************************************)

\* Bijective base-26 of i for i < 26 + 26 * 26: "a".."z", then "aa".."zz".
label_for(i) ==
  IF i < 26 THEN << Letters[i + 1] >>
  ELSE << Letters[((i - 26) \div 26) + 1], Letters[((i - 26) % 26) + 1] >>

\* The labels of the entries, in order of position.
Labels == [i \in 1..Len(g_vecs.data) |-> g_vecs.data[i].label]

\* C1: while the program runs, the entry at 0-based position i carries the
\* label label_for(i) for every i below the length, the label counter equals
\* the length, and no two entries share a label.
C1_LabelsFollowInsertionOrder ==
  run \in {"start", "running"} =>
    /\ Len(g_vecs.data) = g_vecs.len
    /\ g_label_counter = g_vecs.len
    /\ \A i \in 1..g_vecs.len : Labels[i] = label_for(i - 1)
    /\ \A i, j \in 1..g_vecs.len : i # j => Labels[i] # Labels[j]

\* A press after the Spokes Circle preset: sixteen entries of the preset and
\* the pressed one, labelled "q".
C1_PressAfterSpokes ==
  /\ run = "running"
  /\ g_preset_index = 2
  /\ g_vecs.len = SPOKES_N + 1
  /\ Labels[SPOKES_N + 1] = << "q" >>

Fle(x, y) == ~Flt(y, x)

\* C2: in every state the camera scale is at least 10 and at most 2000.
C2_ScaleWithinLimits ==
  /\ Fle(F_10, g_cam.scale)
  /\ Fle(g_cam.scale, F_2000)

\* The wheel has been turned forward past the upper limit, or back past the
\* lower one (the runs start one notch inside the limits).
C2_ScaleAtLimit ==
  /\ nops > 0
  /\ g_cam.scale \in {F_10, F_2000}

\* |x - y| as <<d, e>>, standing for d * 2^e.
AbsDiff(x, y) ==
  IF x[1] = 0 THEN << AbsI(y[1]), y[2] >>
  ELSE IF y[1] = 0 THEN << AbsI(x[1]), x[2] >>
  ELSE IF x[2] >= y[2] THEN << AbsI(x[1] * Pow2(x[2] - y[2]) - y[1]), y[2] >>
  ELSE << AbsI(y[1] * Pow2(y[2] - x[2]) - x[1]), x[2] >>

\* d * s < t * 2^j for d >= 0, s > 0, t > 0 and j >= 0, by long division of
\* t * 2^j by s: q and r are the quotient and remainder of t * 2^(bits done).
RECURSIVE ProductBelow(_, _, _, _, _)
ProductBelow(d, s, q, r, j) ==
  IF q > d THEN TRUE
  ELSE IF j = 0 THEN d = q /\ r > 0
  ELSE ProductBelow(d, s, 2 * q + ((2 * r) \div s), (2 * r) % s, j - 1)

\* |x - y| * scale < t / 256, exactly: the distance of the world coordinates
\* x and y is less than t/256 pixels at the given scale.
WithinPixels(x, y, scale, t) ==
  LET Cmp(d, j) ==
        IF d[1] = 0 THEN TRUE
        ELSE IF j >= 0
             THEN ProductBelow(d[1], scale[1], t \div scale[1], t % scale[1], j)
             ELSE /\ 0 - j <= 9
                  /\ BitLen(d[1]) + BitLen(scale[1]) <= 10
                  /\ d[1] * scale[1] * Pow2(0 - j) < t
  IN Cmp(AbsDiff(x, y), 0 - (AbsDiff(x, y)[2] + scale[2]) - 8)

\* The world point under pixel p with camera cam0 and the one under it with
\* camera cam1 are less than t/256 pixels of cam1 apart in each coordinate.
Anchored(cam0, cam1, W, H, p, t) ==
  LET Near(w0, w1) ==
        /\ WithinPixels(w0[1], w1[1], cam1.scale, t)
        /\ WithinPixels(w0[2], w1[2], cam1.scale, t)
  IN Near(screen_to_world(cam0, W, H, p[1], p[2]),
          screen_to_world(cam1, W, H, p[1], p[2]))

\* The step handled message m (WM_CREATE is not counted in nops).
Handled(m) == lastMsg' = m /\ nops' = nops + 1

C4_LengthWithinCapacity == g_vecs.len <= g_vecs.cap

\* The step handled a primary press at pixel p.
PressAt(p) == Handled(<< "WM_LBUTTONDOWN", p[1], p[2] >>)

\* C5 as stated: when a press finds the storage full and the storage does not
\* grow (the reallocation failed), the process ends there and the append is
\* not carried out: the list and the label counter are as they were.
C5_FailedGrowthIsFatal ==
  [][\A p \in Points :
       (PressAt(p) /\ g_vecs.len = g_vecs.cap /\ g_vecs'.cap = g_vecs.cap) =>
         /\ run' = "crashed"
         /\ g_vecs' = g_vecs
         /\ g_label_counter' = g_label_counter]_vars

\* The lengths the presets yield, by index + 1.
PresetLengths == << 0, 6, 16, 40, 3, 3, 12 >>

\* The vectors of Basis & Diagonals: (2,0) (0,2) (-2,0) (0,-2) (1.5,1.5)
\* (-1.5,1.5).
BasisVectors ==
  << << <<1, 1>>, FZero >>, << FZero, <<1, 1>> >>, << <<-1, 1>>, FZero >>,
     << FZero, <<-1, 1>> >>, << <<3, -1>>, <<3, -1>> >>,
     << <<-3, -1>>, <<3, -1>> >> >>

\* The calls a preset's generator makes, for each seed it may draw.
PresetItems(i) ==
  CASE i = 0 -> { <<>> }
    [] i = 1 -> { basis_items }
    [] i = 2 -> { spokes_items }
    [] i = 3 -> { random_tab[seed] : seed \in 0..MaxSeed }
    [] i = 4 -> { projection_items }
    [] i = 5 -> { reflection_items }
    [] OTHER -> { rotations_items }

\* The entries as <<x, y, color>>, in order of position.
Entries ==
  [i \in 1..Len(g_vecs.data) |->
     << g_vecs.data[i].v[1], g_vecs.data[i].v[2], g_vecs.data[i].color >>]

\* The scene is the current preset's and nothing else.
SceneIsPreset ==
  /\ g_vecs.len = PresetLengths[g_preset_index + 1]
  /\ Len(g_vecs.data) = g_vecs.len
  /\ g_label_counter = g_vecs.len
  /\ Entries \in PresetItems(g_preset_index)
  /\ \A i \in 1..g_vecs.len : Labels[i] = label_for(i - 1)
  /\ g_preset_index = 1 =>
       /\ [i \in 1..6 |-> g_vecs.data[i].v] = BasisVectors
       /\ Labels = << <<"a">>, <<"b">>, <<"c">>, <<"d">>, <<"e">>, <<"f">> >>

\* The step applied a preset: WM_CREATE, or key '1' or '2'.
PresetApplied ==
  \/ lastMsg = <<>> /\ lastMsg' = << "WM_CREATE" >>
  \/ Handled(<< "WM_KEYDOWN", VK_1 >>)
  \/ Handled(<< "WM_KEYDOWN", VK_2 >>)

\* C6: whatever the collection and the label counter held, after a preset is
\* applied (and its appends found memory) the collection holds exactly the
\* preset's vectors in the preset's order, labelled from "a"; the lengths
\* are 0, 6, 16, 40, 3, 3, 12 and Basis & Diagonals is the documented one.
C6_ApplyReplacesScene ==
  [][(PresetApplied /\ run' = "running") => SceneIsPreset']_vars

\* Projection applied over the forty Random Vectors (the capacity they grew
\* stays): three entries, none of the forty.
C6_ProjectionOverRandom ==
  /\ run = "running"
  /\ g_preset_index = 4
  /\ g_vecs.cap = 64
  /\ g_vecs.len = 3
  /\ Labels = << <<"a">>, <<"b">>, <<"c">> >>

\* The step called preset_apply_index(idx).
Applied(idx) == Handled(<< "preset_apply_index", idx >>)

RECURSIVE NextTimes(_, _)
NextTimes(i, n) == IF n = 0 THEN i ELSE NextTimes(preset_wrap(i + 1), n - 1)

\* C8: key '2' moves the current index i to (i + 1) mod N and key '1' to
\* (i - 1) mod N; from every index next then prev gives the index back, and
\* so do N times next.
C8_NavigationIsCyclic ==
  /\ [][/\ Handled(<< "WM_KEYDOWN", VK_2 >>) =>
             g_preset_index' = (g_preset_index + 1) % g_preset_count
        /\ Handled(<< "WM_KEYDOWN", VK_1 >>) =>
             g_preset_index' = (g_preset_index - 1) % g_preset_count]_vars
  /\ [](/\ preset_wrap(preset_wrap(g_preset_index + 1) - 1) = g_preset_index
        /\ NextTimes(g_preset_index, g_preset_count) = g_preset_index)

\* Key '2' at the last preset has made the first one current.
C8_NextWrappedToFirst ==
  /\ lastMsg = << "WM_KEYDOWN", VK_2 >>
  /\ g_preset_index = 0
  /\ nops = 2

\* C9: the Delete key leaves the collection empty and the label counter 0
\* (and Idle/Panning as it was); a press that finds memory appends one entry
\* labelled label_for(entries before it), so presses after a Delete are
\* labelled a, b, c, ... in press order.
C9_DeleteRelabelsFromA ==
  [][/\ Handled(<< "WM_KEYDOWN", VK_DELETE >>) =>
          /\ g_vecs'.len = 0
          /\ g_vecs'.data = <<>>
          /\ g_label_counter' = 0
          /\ g_rightDragging' = g_rightDragging
     /\ \A p \in Points :
          (PressAt(p) /\ run' = "running") =>
            /\ g_vecs'.len = g_vecs.len + 1
            /\ g_label_counter' = g_vecs.len + 1
            /\ g_vecs'.data[g_vecs'.len].label = label_for(g_vecs.len)
            /\ g_label_counter = 0 => g_vecs'.data[1].label = << "a" >>]_vars

\* Two presses after a Delete of Basis & Diagonals (six entries, a..f): the
\* collection holds the two, labelled a and b.
C9_TwoPressesAfterDelete ==
  /\ run = "running"
  /\ g_preset_index = 1
  /\ lastMsg[1] = "WM_LBUTTONDOWN"
  /\ g_vecs.len = 2
  /\ Labels = << <<"a">>, <<"b">> >>

\* C10: the machine is Panning exactly when the last secondary-button message
\* was a press; a secondary press at p makes it Panning with p as the last
\* position, a release makes it Idle, and no other message changes it.
C10_PanningFollowsSecondaryButton ==
  /\ [](g_rightDragging <=> lastSecondary = "press")
  /\ [][/\ \A p \in Points :
             Handled(<< "WM_RBUTTONDOWN", p[1], p[2] >>) =>
               g_rightDragging' /\ g_lastMouse' = p
        /\ Handled(<< "WM_RBUTTONUP" >>) => ~g_rightDragging'
        /\ g_rightDragging' # g_rightDragging =>
             lastMsg'[1] \in {"WM_RBUTTONDOWN", "WM_RBUTTONUP"}]_vars

\* A drag has ended: press, a move that panned, release.
C10_ReleasedAfterDrag ==
  /\ lastMsg = << "WM_RBUTTONUP" >>
  /\ lastSecondary = "release"
  /\ ~g_rightDragging
  /\ g_cam.panX # FZero


\* The whole number a float x with x[2] >= 0 stands for.
PanValue(x) == x[1] * Pow2(x[2])

\* The step handled a pointer-move to p.
MovedTo(p) == Handled(<< "WM_MOUSEMOVE", p[1], p[2] >>)

\* While Idle no pointer-move changes the camera or the last position: a
\* step from an Idle state that changes either is the handling of another
\* message.
IdleMoveChangesNothing ==
  (~g_rightDragging /\ << g_cam, g_lastMouse >>' # << g_cam, g_lastMouse >>) =>
    /\ nops' = nops + 1
    /\ lastMsg'[1] \in {"WM_MOUSEWHEEL", "WM_KEYDOWN", "WM_RBUTTONDOWN"}

\* C11 as stated: a pointer-move to P while Panning adds exactly
\* P - lastPosition to (panX, panY), makes P the last position and leaves the
\* scale; a pointer-move while Idle changes neither camera nor last position.
C11_MoveAddsPointerDelta ==
  [][/\ \A p \in Points :
          MovedTo(p) =>
            /\ g_rightDragging
            /\ g_cam'.panX[2] >= 0 /\ g_cam'.panY[2] >= 0
            /\ PanValue(g_cam'.panX) = PanValue(g_cam.panX) + (p[1] - g_lastMouse[1])
            /\ PanValue(g_cam'.panY) = PanValue(g_cam.panY) + (p[2] - g_lastMouse[2])
            /\ g_cam'.scale = g_cam.scale
            /\ g_lastMouse' = p
     /\ IdleMoveChangesNothing]_vars

\* The distance of the pan after a move from the exact sum is at most t.
PanAdded(before, after, d, t) ==
  /\ before[2] >= 0
  /\ after[2] >= 0
  /\ AbsI(PanValue(after) - (PanValue(before) + d)) <= t

\* C11 as the code has it: the move adds P - lastPosition to the pan in
\* single precision: exactly while the sum stays within 2^24 in magnitude,
\* and rounded to the nearest float, at most 1 off, up to 2^25.
C11_MoveAddsPointerDeltaRounded ==
  [][/\ \A p \in Points :
          MovedTo(p) =>
            /\ g_rightDragging
            /\ PanAdded(g_cam.panX, g_cam'.panX, p[1] - g_lastMouse[1],
                        IF AbsI(PanValue(g_cam.panX) + (p[1] - g_lastMouse[1]))
                             <= Pow2(24) THEN 0 ELSE 1)
            /\ PanAdded(g_cam.panY, g_cam'.panY, p[2] - g_lastMouse[2],
                        IF AbsI(PanValue(g_cam.panY) + (p[2] - g_lastMouse[2]))
                             <= Pow2(24) THEN 0 ELSE 1)
            /\ g_cam'.scale = g_cam.scale
            /\ g_lastMouse' = p
     /\ IdleMoveChangesNothing]_vars

\* A move while Panning has taken panX past 2^24.
C11_MovedPastExactRange ==
  /\ lastMsg = << "WM_MOUSEMOVE", 403, 297 >>
  /\ nops > 0
  /\ g_cam.panX[2] >= 0
  /\ PanValue(g_cam.panX) > Pow2(24)


\* C12: a primary press at P that finds memory, Idle or Panning, appends
\* exactly one entry at the end: the entries before stay, the new last one
\* is at screen_to_world(P) of the camera and client size of that moment,
\* has the colour RGB(80,220,160) and the label label_for(counter before);
\* the counter grows by 1; camera, client size and Idle/Panning stay.
C12_PressAppendsOneEntry ==
  [][\A p \in Points :
       (PressAt(p) /\ run' = "running") =>
         /\ g_vecs'.len = g_vecs.len + 1
         /\ g_vecs'.data =
              Append(g_vecs.data,
                     [v |-> screen_to_world(g_cam, g_clientW, g_clientH, p[1], p[2]),
                      color |-> 80 + 256 * 220 + 65536 * 160,
                      label |-> label_for(g_label_counter)])
         /\ g_label_counter' = g_label_counter + 1
         /\ UNCHANGED << g_cam, g_clientW, g_clientH, g_rightDragging,
                         g_lastMouse >>]_vars

\* A press while Panning with the view zoomed about the pressed pixel: the
\* one entry is not where the start camera would put it.
C12_PressedWhilePanningZoomed ==
  /\ lastMsg = << "WM_LBUTTONDOWN", 180, 80 >>
  /\ run = "running"
  /\ g_rightDragging
  /\ g_cam.scale # F_80
  /\ g_vecs.len = 1
  /\ g_vecs.data[1].v # screen_to_world(START_CAM, 800, 600, 180, 80)


\* world_to_screen(screen_to_world(p)) with one camera and client size.
ScreenRoundTrip(cam, W, H, p) ==
  LET Back(w) == world_to_screen(cam, W, H, w[1], w[2])
  IN Back(screen_to_world(cam, W, H, p[1], p[2]))

\* C13 as stated: with the camera and client size of any state, every pixel
\* p comes back from world_to_screen(screen_to_world(p)) as p.
C13_ScreenRoundTripIsIdentity ==
  \A p \in Points : ScreenRoundTrip(g_cam, g_clientW, g_clientH, p) = p


\* |x - y| * scale < t / 256, the left side computed in single precision (two
\* roundings, 2^-23 of its value together): the distance of the world
\* coordinates x and y, of any magnitudes, is less than t/256 pixels.
FewerPixels(x, y, scale, t) ==
  LET Dist(d) == Flt(Fmul(<< AbsI(d[1]), d[2] >>, scale), Norm(t, -8))
  IN Dist(Fsub(x, y))

\* screen_to_world(world_to_screen(w)) is less than t/256 pixels from the
\* world point w in each coordinate, with one camera and client size.
WorldRoundTripWithin(cam, W, H, w, t) ==
  LET Near(back) ==
        /\ FewerPixels(w[1], back[1], cam.scale, t)
        /\ FewerPixels(w[2], back[2], cam.scale, t)
      Back(px) == Near(screen_to_world(cam, W, H, px[1], px[2]))
  IN Back(world_to_screen(cam, W, H, w[1], w[2]))

RECURSIVE NthLabel(_, _, _)
NthLabel(n, k, size) ==
  IF n >= size THEN NthLabel(n - size, k + 1, size * 26)
  ELSE LET Pow26(j) == << 1, 26, 676, 17576, 456976, 11881376 >>[j + 1]
       IN [i \in 1..k |-> Letters[((n \div Pow26(k - i)) % 26) + 1]]

\* The index a label stands for, read as a bijective base-26 numeral with
\* a..z for 1..26, less 1; acc is the value of the letters read so far.
RECURSIVE LabelIndex(_, _)
LabelIndex(label, acc) ==
  IF label = <<>> THEN acc - 1
  ELSE LabelIndex(Tail(label),
                  26 * acc + (CHOOSE j \in 1..26 : Letters[j] = Head(label)))

\* C15: make_label(n) with the 8-byte buffer of an entry returns the n-th
\* string of a, b, ..., z, aa, ..., zz, aaa, ... for every n of one to three
\* letters and beyond while the label fits; the label reads back as n, so
\* distinct indices have distinct labels; 0, 25, 26, 701, 702 give a, z, aa,
\* zz, aaa; and the closed form label_for agrees below 702.
C15_LabelIsBijectiveBase26 ==
  (lastMsg # <<>> /\ lastMsg[1] = "make_label") =>
    /\ lastMsg[3] = NthLabel(lastMsg[2], 1, 26)
    /\ LabelIndex(lastMsg[3], 0) = lastMsg[2]
    /\ Len(lastMsg[3]) < LABEL_SIZE
    /\ lastMsg[2] < 702 => lastMsg[3] = label_for(lastMsg[2])
    /\ lastMsg[2] = 0 => lastMsg[3] = << "a" >>
    /\ lastMsg[2] = 25 => lastMsg[3] = << "z" >>
    /\ lastMsg[2] = 26 => lastMsg[3] = << "a", "a" >>
    /\ lastMsg[2] = 701 => lastMsg[3] = << "z", "z" >>
    /\ lastMsg[2] = 702 => lastMsg[3] = << "a", "a", "a" >>

\* make_label(18277) has returned the last label of three letters.
C15_LastOfThreeLetters ==
  lastMsg = << "make_label", 18277, << "z", "z", "z" >> >>


\* C16: every step that changes a field of the camera is the handling of a
\* scroll, of a pointer-move while Panning or of the reset key; primary and
\* secondary press, release, pointer-move while Idle, Delete, the preset
\* keys, resize, paint and WM_CREATE leave scale, panX and panY as they are.
C16_CameraWrittenByZoomPanReset ==
  [][g_cam' # g_cam =>
       /\ nops' = nops + 1
       /\ \/ lastMsg'[1] = "WM_MOUSEWHEEL"
          \/ lastMsg'[1] = "WM_MOUSEMOVE" /\ g_rightDragging
          \/ lastMsg' = << "WM_KEYDOWN", VK_R >>]_vars

\* The view has been zoomed and panned and the window was then resized: the
\* camera is still the zoomed and panned one.
C16_ResizedAfterZoomAndPan ==
  /\ lastMsg = << "WM_SIZE", 641, 481 >>
  /\ g_cam.scale # F_80
  /\ g_cam.panX # FZero
  /\ nops >= 3


\* The step reset the scene: Delete, a preset key or WM_CREATE.
SceneReset ==
  \/ lastMsg' = << "WM_CREATE" >> /\ lastMsg = <<>>
  \/ /\ nops' = nops + 1
     /\ lastMsg' \in { << "WM_KEYDOWN", VK_DELETE >>, << "WM_KEYDOWN", VK_1 >>,
                       << "WM_KEYDOWN", VK_2 >> }

\* C17: while the program runs, a step that is not a scene reset leaves every
\* entry at its position with its vector, colour and label (appends that
\* grow the storage, pan, zoom, reset key, resize and paint among them), and
\* a step that changes the collection or the label counter at all is a scene
\* reset or a primary press: paint changes neither.
C17_EntriesStayUntilReset ==
  [][run' = "running" =>
       /\ ~SceneReset =>
            /\ Len(g_vecs'.data) >= Len(g_vecs.data)
            /\ \A i \in 1..Len(g_vecs.data) : g_vecs'.data[i] = g_vecs.data[i]
       /\ << g_vecs, g_label_counter >>' # << g_vecs, g_label_counter >> =>
            \/ SceneReset
            \/ nops' = nops + 1 /\ lastMsg'[1] = "WM_LBUTTONDOWN"]_vars

\* Spokes Circle filled the storage of 16, a press grew it to 32, then the
\* wheel was turned: the seventeen entries are in place.
C17_GrownThenZoomed ==
  /\ run = "running"
  /\ lastMsg[1] = "WM_MOUSEWHEEL"
  /\ g_preset_index = 2
  /\ g_vecs.cap = 32
  /\ Len(g_vecs.data) = 17
  /\ [i \in 1..16 |-> Entries[i]] = spokes_items


\* C18: the reset key, Idle or Panning, leaves scale = 80 and panX = panY = 0
\* and changes nothing else: not Idle/Panning, the last position, the
\* collection, the label counter or the current preset.
C18_ResetRestoresCamera ==
  [][Handled(<< "WM_KEYDOWN", VK_R >>) =>
       /\ g_cam'.scale = I2F(80)
       /\ g_cam'.panX = I2F(0)
       /\ g_cam'.panY = I2F(0)
       /\ UNCHANGED << g_rightDragging, g_lastMouse, g_vecs, g_label_counter,
                       g_preset_index, g_preset_name, g_clientW, g_clientH >>]_vars

\* The reset key while Panning, the drag having reached (403,297), with one
\* pressed vector in the scene.
C18_ResetWhilePanning ==
  /\ lastMsg = << "WM_KEYDOWN", VK_R >>
  /\ g_rightDragging
  /\ g_lastMouse = << 403, 297 >>
  /\ g_vecs.len = 1
  /\ g_cam = START_CAM


\* The step <<m, k>> is that of the ladder for the target n / d > 0 in the
\* decade k: 10^k <= n/d < 10^(k+1), and with frac = (n/d) / 10^k the step is
\* 1, 2, 5 or 10 times 10^k as frac < 1.5, < 3, < 7 or not.  p and q are
\* 10^k as p / q.
OnLadder(n, d, k, p, q, step) ==
  /\ n * q >= d * p
  /\ n * q < 10 * d * p
  /\ step = IF 2 * n * q < 3 * d * p THEN << 1, k >>
            ELSE IF n * q < 3 * d * p THEN << 2, k >>
            ELSE IF n * q < 7 * d * p THEN << 5, k >>
            ELSE << 1, k + 1 >>

\* C19: nice_step(target) is 1 for every target <= 0 and m * 10^k of the
\* 1-2-5-10 ladder for every target > 0, with k = floor(log10(target)); it is
\* positive throughout (for every scale 10..2000 too), and nice_step of 0.9,
\* 1.8, 4.0, 9.0 and 15 is 1, 2, 5, 10 and 20.
C19_StepFollowsLadder ==
  (lastMsg # <<>> /\ lastMsg[1] = "nice_step_for_scale") =>
    LET Is(t, step) ==
          /\ step[1] \in {1, 2, 5}
          /\ t[1] <= 0 => step = << 1, 0 >>
          /\ t[1] > 0 =>
               \E k \in -2..1 :
                 OnLadder(t[1], t[2], k, IF k > 0 THEN 10 ELSE 1,
                          << 1, 10, 100 >>[IF k < 0 THEN 1 - k ELSE 1], step)
          /\ t = << 9, 10 >> => step = << 1, 0 >>
          /\ t = << 18, 10 >> => step = << 2, 0 >>
          /\ t = << 256, 64 >> => step = << 5, 0 >>
          /\ t = << 576, 64 >> => step = << 1, 1 >>
          /\ t = << 960, 64 >> => step = << 2, 1 >>
    IN Is(lastMsg[2], lastMsg[3])

\* nice_step(15) has returned 20: 15 / 10 is not below 1.5.
C19_FifteenGivesTwenty ==
  lastMsg = << "nice_step_for_scale", << 960, 64 >>, << 2, 1 >> >>


\* C20 as stated: vec2_abs(a) is (|a.x|, |a.y|) for every vector a, whole
\* components or not.
C20_AbsIsComponentwise ==
  (lastMsg # <<>> /\ lastMsg[1] = "vec2_abs") =>
    lastMsg[3] = << << AbsI(lastMsg[2][1][1]), lastMsg[2][1][2] >>,
                    << AbsI(lastMsg[2][2][1]), lastMsg[2][2][2] >> >>


\* C21: vec2_normalize of the zero vector is the zero vector, vec2_angle is 0
\* when either vector is the zero vector, and vec2_reflect about the zero
\* vector gives the incident vector back; no call divides by zero.
C21_ZeroLengthFallbacks ==
  lastMsg # <<>> =>
    /\ (lastMsg[1] = "vec2_normalize" /\ lastMsg[2] = << FZero, FZero >>) =>
         lastMsg[3] = << FZero, FZero >>
    /\ (/\ lastMsg[1] = "vec2_angle"
        /\ << FZero, FZero >> \in { lastMsg[2], lastMsg[3] }) =>
         lastMsg[4] = FZero
    /\ (lastMsg[1] = "vec2_reflect" /\ lastMsg[3] = << FZero, FZero >>) =>
         lastMsg[4] = lastMsg[2]

\* vec2_reflect of (0.5, -0.7) about the zero vector has returned it.
C21_ReflectedAboutZero ==
  lastMsg = << "vec2_reflect", << F_0_5, Fneg(F_0_7) >>, << FZero, FZero >>,
               << F_0_5, Fneg(F_0_7) >> >>


\* C22: veclist_clear by itself empties the list and changes nothing else:
\* the capacity, the label counter and the rest of the program state stay; a
\* primary press right after it that finds memory labels its entry with the
\* counter as it was before the clear; and no step makes the capacity smaller.
C22_ClearOnlyEmptiesList ==
  [][/\ Handled(<< "veclist_clear" >>) =>
          /\ g_vecs'.len = 0
          /\ g_vecs'.data = <<>>
          /\ g_vecs'.cap = g_vecs.cap
          /\ UNCHANGED << run, g_label_counter, camVars, presetVars, dragVars >>
     /\ \A p \in Points :
          (lastMsg = << "veclist_clear" >> /\ PressAt(p) /\ run' = "running") =>
            /\ g_vecs'.len = 1
            /\ g_vecs'.data[1].label = label_for(g_label_counter)
            /\ g_label_counter' = g_label_counter + 1
     /\ g_vecs'.cap >= g_vecs.cap]_vars

\* A press after a clear of a list of 16 entries: the one entry of the list
\* is labelled "q" and the capacity is still 16.
C22_PressedAfterBareClear ==
  /\ lastMsg # <<>>
  /\ lastMsg[1] = "WM_LBUTTONDOWN"
  /\ run = "running"
  /\ g_vecs.len = 1
  /\ g_vecs.cap = 16
  /\ g_label_counter = 17
  /\ g_vecs.data[1].label = << "q" >>


\* C23: in every state the preset index is at least 0 and below the number of
\* presets and the preset name is the name of the table entry at that index;
\* the Delete key, a primary press, a secondary press or release, a
\* pointer-move, a scroll and the R key leave index and name as they are: a
\* step that changes either is the handling of key '1' or key '2'.
C23_IndexAndNameAgree ==
  /\ [](/\ 0 <= g_preset_index
        /\ g_preset_index < g_preset_count
        /\ g_preset_name = g_presets[g_preset_index + 1])
  /\ [][/\ (/\ nops' = nops + 1
            /\ \/ lastMsg'[1] \in { "WM_LBUTTONDOWN", "WM_RBUTTONDOWN",
                                    "WM_MOUSEMOVE", "WM_RBUTTONUP",
                                    "WM_MOUSEWHEEL" }
               \/ lastMsg' \in { << "WM_KEYDOWN", VK_DELETE >>,
                                 << "WM_KEYDOWN", VK_R >> }) =>
             UNCHANGED << g_preset_index, g_preset_name >>
        /\ << g_preset_index, g_preset_name >>' #
             << g_preset_index, g_preset_name >> =>
             lastMsg' \in { << "WM_KEYDOWN", VK_1 >>,
                            << "WM_KEYDOWN", VK_2 >> }]_vars

\* Key '1' at start-up has made the last preset current, and the Delete key
\* and a scroll after it have left it current.
C23_LastPresetKeptThroughDeleteAndScroll ==
  /\ lastMsg # <<>>
  /\ lastMsg[1] = "WM_MOUSEWHEEL"
  /\ g_preset_index = g_preset_count - 1
  /\ g_preset_name = "Rotations"
  /\ g_vecs.len = 0
  /\ g_cam.scale # F_80


\* The step is one of a drag under way: Panning before and after, and the
\* message handled is not a secondary press, a scroll or the R key.
DragStep ==
  /\ g_rightDragging
  /\ g_rightDragging'
  /\ nops' = nops + 1
  /\ lastMsg'[1] \notin { "WM_RBUTTONDOWN", "WM_MOUSEWHEEL" }
  /\ lastMsg' # << "WM_KEYDOWN", VK_R >>

\* The whole-number pan less the last pointer position, per coordinate: the
\* pan at the secondary press less P0 when the press has just been handled.
PanOffset(cam, last) ==
  << PanValue(cam.panX) - last[1], PanValue(cam.panY) - last[2] >>

\* C24 as stated: a secondary press at P0 leaves the pan and makes P0 the last
\* position; every step of the drag that follows keeps pan - lastPosition, so
\* that after moves ending at Pn the pan has changed by exactly Pn - P0
\* whatever the positions in between; pointer-moves while Idle add nothing.
C24_DragTelescopes ==
  [][/\ \A p \in Points :
          Handled(<< "WM_RBUTTONDOWN", p[1], p[2] >>) =>
            g_cam' = g_cam /\ g_lastMouse' = p
     /\ DragStep =>
          /\ g_cam'.panX[2] >= 0 /\ g_cam'.panY[2] >= 0
          /\ PanOffset(g_cam', g_lastMouse') = PanOffset(g_cam, g_lastMouse)
     /\ IdleMoveChangesNothing]_vars

\* C24 as the code has it: the same with the additions in single precision:
\* a step of the drag keeps pan - lastPosition while the pan stays within
\* 2^24 in magnitude and changes it by at most 1 per coordinate beyond that
\* (up to 2^25), so that the total then depends on the positions in between.
C24_DragTelescopesWhileExact ==
  [][/\ \A p \in Points :
          Handled(<< "WM_RBUTTONDOWN", p[1], p[2] >>) =>
            g_cam' = g_cam /\ g_lastMouse' = p
     /\ DragStep =>
          /\ g_cam'.panX[2] >= 0 /\ g_cam'.panY[2] >= 0
          /\ \A i \in 1..2 :
               LET Slack(sum) == IF AbsI(sum) <= Pow2(24) THEN 0 ELSE 1
               IN AbsI(PanOffset(g_cam', g_lastMouse')[i]
                         - PanOffset(g_cam, g_lastMouse)[i])
                    <= Slack(PanOffset(g_cam, g_lastMouse)[i] + g_lastMouse'[i])
     /\ IdleMoveChangesNothing]_vars

\* A drag from (180,80) to (403,297) that began with panX = 16777182 has
\* ended with panX = 16777404: 222 more, where the pointer went 223.
C24_DraggedOneShort ==
  /\ lastMsg = << "WM_MOUSEMOVE", 403, 297 >>
  /\ g_rightDragging
  /\ nops = 3
  /\ g_cam.panX[2] >= 0
  /\ PanValue(g_cam.panX) = 16777182 + 222

====
